---- MODULE Spec2Model ----
(***************************************************************************)
(* A model of simsearch/experiments/simulate_search.py: the memoizing      *)
(* Cache, the neighbour provider _get_neighbours, the distance oracle sed, *)
(* the three search strategies (_greedy_search, _breadth_first_search,     *)
(* _random_stumble), the TraceFile codec and the driver simulate_search;   *)
(* and of FreqDist of simsearch/experiments/simulate_accessibility.py.     *)
(*                                                                         *)
(* Symbols are code points (integers), so that the tuple comparison of     *)
(* min((sed(n, target), n) ...) can break ties the way Python does.        *)
(***************************************************************************)
EXTENDS Integers, Sequences, FiniteSets, TLC

\* ------------------------------------------------------------------ bounds

\* limit ranges over 1..MaxLimit (the code's default is 5).
MaxLimit == 3
\* k ranges over 1..MaxK (the code's default is N_NEIGHBOURS_RECALLED = 15).
MaxK == 2
\* A trace list has at most MaxTraces traces, a path at most MaxPathLen symbols.
MaxTraces == 2
MaxPathLen == 2
\* A trace file that save did not write has at most MaxRows data lines.
MaxRows == 2
\* The number of calls of a Cache instance with one key.
MaxCalls == 3
\* The number of search calls made one after the other in one process. The
\* calls of one process share limit and k (simulate_search passes the same k
\* to every call and leaves limit at its default); the query, the target
\* and the error rate vary from call to call.
MaxSearches == 2
\* The number of invocations of simulate_search in one process.
MaxRuns == 2
\* The number of values drawn from the random source after a seeding.
MaxDraws == 4

\* FreqDist: the pairs the constructor is given, the counts and increments,
\* the calls made on one distribution.
MaxPairs == 2
MaxCount == 2
MaxOps == 3

\* The symbols of the search examples and of the backing stores.
Sym == {1, 2, 3, 4}

\* error_rate in percent, and the values random.random() may return, in
\* hundredths ([0, 1) scaled by 100).
ErrorRates == {0, 50}
Draws == {0, 99}

\* ------------------------------------------------------------- primitives

Last(s) == s[Len(s)]
Range(s) == {s[i] : i \in 1..Len(s)}
MinNat(a, b) == IF a <= b THEN a ELSE b
Abs(x) == IF x < 0 THEN -x ELSE x

RECURSIVE Pow(_, _)
Pow(b, e) == IF e = 0 THEN 1 ELSE b * Pow(b, e - 1)

\* All orderings of a finite set, as sequences without repetition.
Perms(S) ==
    {p \in [1..Cardinality(S) -> S] : \A i, j \in 1..Cardinality(S) : p[i] = p[j] => i = j}

\* ----------------------------------------------------------- backing stores
\* models.Node and stroke.StrokeEditDistance are not part of the sources at
\* hand; they are modelled from their contracts: a Node lookup fails for a
\* pivot without an entry, the distance fails (KeyError, the error
\* _breadth_first_search catches) for a symbol without stroke data.

Node(list) == [exists |-> TRUE, neighbours |-> list]
NoNode == [exists |-> FALSE, neighbours |-> <<>>]
Strokes(n) == [exists |-> TRUE, strokes |-> n]
NoStrokes == [exists |-> FALSE, strokes |-> 0]

\* The backing data the model is run on. The similarity graph is closed:
\* every stored neighbour has a Node, and every Node has stroke data (the
\* graph is built from the stroke data). A query or target of the search
\* examples may lack either.
Worlds ==
    { \* a detour: greedy is drawn to 2, the short way is through 3
      [graph |-> <<Node(<<2, 3>>), Node(<<3>>), Node(<<4>>), Node(<<1>>)>>,
       stroke_data |-> <<Strokes(0), Strokes(2), Strokes(1), Strokes(3)>>],
      \* self loops, a dead end, equal distances, a third stored neighbour
      [graph |-> <<Node(<<1, 2>>), Node(<<3, 1, 4>>), Node(<<3>>), Node(<<2>>)>>,
       stroke_data |-> <<Strokes(1), Strokes(1), Strokes(1), Strokes(1)>>],
      \* 3 has stroke data but no Node, 4 has neither
      [graph |-> <<Node(<<2, 1>>), Node(<<1>>), NoNode, NoNode>>,
       stroke_data |-> <<Strokes(0), Strokes(1), Strokes(2), NoStrokes>>],
      \* an empty neighbour list, and a target next to several symbols
      [graph |-> <<Node(<<>>), Node(<<4, 1>>), Node(<<2, 4>>), Node(<<3, 1>>)>>,
       stroke_data |-> <<Strokes(2), Strokes(0), Strokes(3), Strokes(1)>>] }

VARIABLES
    graph,        \* models.Node: pivot -> [exists, neighbours (ranked list)]
    stroke_data,  \* the stroke data behind StrokeEditDistance
    nb_cached,    \* _get_neighbours._cached: (pivot, ('k', k)) -> set of symbols
    sed_cached,   \* sed._cached: <<n, target>> -> distance
    pc,           \* "idle", or the search function being executed
    fn,           \* the search function called last
    query, target, limit, k, error_rate,   \* its arguments
    path,         \* _greedy_search / _random_stumble: path
    paths,        \* _breadth_first_search: paths (the frontier)
    shortest,     \* _breadth_first_search: shortest (the visited set)
    expanded,     \* the symbols whose paths the running breadth-first
                  \* search has popped so far, in order (history)
    ret,          \* what the last call returned or raised
    searches,     \* the number of search calls made so far
    \* a Cache instance around a function f of its own
    _cached,      \* Cache._cached
    invoked,      \* key -> the number of times f was invoked for it
    called,       \* key -> the number of times the Cache was called with it
    cache_ret,    \* what the last call of the Cache returned
    \* TraceFile
    traces,       \* the trace list handed to TraceFile.save
    file,         \* the text of the trace file
    loaded,       \* what TraceFile.load returned or raised
    codec_pc,     \* "new", "saved" (a file written by save), "given" (a
                  \* file from elsewhere), "loaded"
    \* simulate_search
    flashcard,    \* the lines of the flashcard file: [query, targets]
    sim_args,     \* the strategy and error_rate of the invocation made last
    sim_pc,       \* "idle", "loop" (at the head of the loop), "call" (in
                  \* search_fn, or back from it)
    todo,         \* the search examples the loop has yet to take
    sim_traces,   \* simulate_search: traces
    runs,         \* the invocations that ended, in order: how, and the
                  \* trace list handed to TraceFile.save (history)
    loads,        \* the number of calls of _load_search_examples (history)
    \* the random module
    tape,         \* the values random.random() returns after
                  \* random.seed(123456789), as far as they were drawn
    rng_pos,      \* the number of values drawn since the last seeding
    \* a FreqDist
    fd,           \* the dict itself: sample -> count
    fd_total,     \* FreqDist._total
    fd_call,      \* the call made last, and how it ended
    fd_calls      \* the number of calls made since construction

cache_vars == <<_cached, invoked, called, cache_ret>>
codec_vars == <<traces, file, loaded, codec_pc>>
search_vars == <<graph, stroke_data, nb_cached, sed_cached, pc, fn, query, target,
                 limit, k, error_rate, path, paths, shortest, expanded, ret, searches>>

sim_vars == <<flashcard, sim_args, sim_pc, todo, sim_traces, runs, loads>>
rng_vars == <<tape, rng_pos>>
freq_vars == <<fd, fd_total, fd_call, fd_calls>>

vars == <<search_vars, cache_vars, codec_vars, sim_vars, rng_vars, freq_vars>>

\* What no search function touches, and what only _breadth_first_search
\* does.
backing == <<graph, stroke_data, cache_vars, codec_vars, freq_vars>>
stores == <<backing, expanded, sim_vars, rng_vars>>
args == <<fn, query, target, limit, k, error_rate>>

\* ------------------------------------------------------------------ Cache

\* Cache.__call__, line 216: key = args + tuple(kwargs.items()), for a call
\* f(a, k=kk) and for a call f(a, b).
KeywordKey(a, kk) == <<a, <<"k", kk>>>>
PositionalKey(a, b) == <<a, b>>

\* A Cache that looks nothing up: every call is a miss.
CacheMissAlways(cached, key) == TRUE

\* Cache.__call__, line 217: the key is not in the dictionary.
CacheMiss(cached, key) == key \notin DOMAIN cached

\* Cache.__call__, lines 217-218: the dictionary after a call whose f
\* returned value (f is invoked only on a miss).
CacheStore(cached, key, value) ==
    IF CacheMiss(cached, key) THEN (key :> value) @@ cached ELSE cached

\* A function f(a, k=kk) to wrap, which returns without side effects, and
\* the keys of its calls.
CacheArgs == {1, 2}
CacheKwargs == {1, 2}
CacheKeys == {KeywordKey(a, kk) : a \in CacheArgs, kk \in CacheKwargs}
WrappedF(a, kk) == 10 * a + kk

\* ------------------------------------------------------ neighbour provider

\* neighbours[:k], as the set of their symbols.
TopK(list, kk) == {list[i] : i \in 1..MinNat(kk, Len(list))}

\* A provider that does not cut the neighbour list at k.
GetNeighboursUncut(pivot, kk) == Range(graph[pivot].neighbours)

\* The body of _get_neighbours.
GetNeighbours(pivot, kk) == TopK(graph[pivot].neighbours, kk)

\* _get_neighbours(pivot, k=kk) raises: a miss, and Node.objects.get fails.
NbRaises(cached, pivot, kk) ==
    CacheMiss(cached, KeywordKey(pivot, kk)) /\ ~graph[pivot].exists

\* _get_neighbours._cached after a call that returns.
NbCall(cached, pivot, kk) ==
    CacheStore(cached, KeywordKey(pivot, kk), GetNeighbours(pivot, kk))

\* neighbours.remove(target) on the set the cache handed out: the set is the
\* cached object itself.
NbRemove(cached, pivot, kk, t) ==
    [cached EXCEPT ![KeywordKey(pivot, kk)] = @ \ {t}]

\* --------------------------------------------------------- distance oracle

\* An existence check that asks the cache instead of the wrapped oracle.
SedContainsCached(s) == \E key \in DOMAIN sed_cached : key[1] = s

\* Cache.__contains__: delegates to the wrapped StrokeEditDistance.
SedContains(s) == stroke_data[s].exists

\* StrokeEditDistance()(a, b).
StrokeEditDistance(a, b) == Abs(stroke_data[a].strokes - stroke_data[b].strokes)

\* sed(a, b) raises KeyError: a miss, and a symbol without stroke data.
SedRaises(cached, a, b) ==
    CacheMiss(cached, PositionalKey(a, b)) /\ ~(SedContains(a) /\ SedContains(b))

\* sed._cached after the calls sed(n, t) for every n of S, all returning.
RECURSIVE SedCalls(_, _, _)
SedCalls(cached, S, t) ==
    IF S = {} THEN cached
    ELSE LET n == CHOOSE x \in S : TRUE
         IN SedCalls(CacheStore(cached, PositionalKey(n, t), StrokeEditDistance(n, t)), S \ {n}, t)

\* The value sed(n, t) returns once cached.
Sed(cached, n, t) == cached[PositionalKey(n, t)]

\* ------------------------------------------------------------- error model

\* A miss that is drawn whatever random.random() returns.
RecognisedNever(er, kk, r) == FALSE

\* error_rate == 0.0 or random.random() < (1 - error_rate)**k
Recognised(er, kk, r) == er = 0 \/ r * Pow(100, kk - 1) < Pow(100 - er, kk)

\* ------------------------------------------------------------------ frames

NoRet == [kind |-> "none", path |-> <<>>, exit |-> ""]
RetPath(p, exit) == [kind |-> "path", path |-> p, exit |-> exit]
RetNone == [kind |-> "None", path |-> <<>>, exit |-> "absent"]
RetRaise(e) == [kind |-> "raise", path |-> <<>>, exit |-> e]

\* The Cache instance and the trace file, untouched.
CacheNew ==
    /\ _cached = <<>>
    /\ invoked = [key \in CacheKeys |-> 0]
    /\ called = [key \in CacheKeys |-> 0]
    /\ cache_ret = 0

CodecNew ==
    /\ traces = <<>>
    /\ file = <<>>
    /\ loaded = [kind |-> "none", exit |-> "", traces |-> <<>>]
    /\ codec_pc = "new"

\* simulate_search never invoked, the random source never seeded.
SimNew ==
    /\ sim_pc = "idle"
    /\ todo = <<>>
    /\ sim_traces = <<>>
    /\ runs = <<>>
    /\ loads = 0
    /\ tape = <<>>
    /\ rng_pos = 0

\* No FreqDist constructed.
NoCall == [op |-> "", sample |-> "", n |-> 0, exit |-> ""]

FreqNew ==
    /\ fd = <<>>
    /\ fd_total = 0
    /\ fd_call = NoCall
    /\ fd_calls = 0

\* A process that does not run simulate_search.
NoSim ==
    /\ flashcard = <<>>
    /\ sim_args = [strategy |-> "", error_rate |-> 0]
    /\ SimNew

\* The module as imported: both caches empty, no search called yet.
SearchNew ==
    /\ nb_cached = <<>>
    /\ sed_cached = <<>>
    /\ pc = "idle"
    /\ fn = "none"
    /\ query = 1 /\ target = 1 /\ error_rate = 0
    /\ path = <<>>
    /\ paths = <<>>
    /\ shortest = {}
    /\ expanded = <<>>
    /\ ret = NoRet
    /\ searches = 0

Init ==
    /\ \E w \in Worlds : graph = w.graph /\ stroke_data = w.stroke_data
    /\ limit \in 1..MaxLimit
    /\ k \in 1..MaxK
    /\ SearchNew
    /\ CacheNew
    /\ FreqNew
    /\ CodecNew
    /\ NoSim

\* A call of one of the search functions.
Call(f, q, t, er) ==
    /\ pc = "idle"
    /\ searches < MaxSearches
    /\ q # t
    /\ searches' = searches + 1
    /\ fn' = f /\ query' = q /\ target' = t /\ error_rate' = er
    /\ UNCHANGED <<limit, k>>

\* The function returns or raises: its frame is gone.
Return(r) ==
    /\ pc' = "idle"
    /\ ret' = r
    /\ path' = <<>>
    /\ paths' = <<>>
    /\ shortest' = {}

\* --------------------------------------------------------- _greedy_search

\* The loop condition off by one: len(path) <= limit + 1.
GreedyLoopCondLate(p) == Last(p) # target /\ Len(p) <= limit + 1

\* Line 127: the loop condition.
GreedyLoopCond(p) == Last(p) # target /\ Len(p) <= limit

\* The assertion after the loop, and the return that follows it.
GreedyFail(p) ==
    IF p[1] = query /\ Last(p) # target
    THEN RetPath(p, "failure")
    ELSE RetRaise("AssertionError")

\* Every neighbour an option, tried before or not.
GreedyOptionsAll(neighbours, p) == neighbours

\* Line 143: neighbours.difference(path).
GreedyOptions(neighbours, p) == neighbours \ Range(p)

\* The neighbour farthest from target, instead of the nearest.
GreedyChoiceFarthest(cached, options, t) ==
    CHOOSE n \in options :
        \A m \in options :
            \/ Sed(cached, n, t) > Sed(cached, m, t)
            \/ (Sed(cached, n, t) = Sed(cached, m, t) /\ n <= m)

\* min((sed(n, target), n) for n in options): the least distance, and among
\* equal distances the least symbol.
GreedyChoice(cached, options, t) ==
    CHOOSE n \in options :
        \A m \in options :
            \/ Sed(cached, n, t) < Sed(cached, m, t)
            \/ (Sed(cached, n, t) = Sed(cached, m, t) /\ n <= m)

\* Lines 120-126, for a call _greedy_search(q, t, error_rate=er).
GreedyCall(q, t, er) ==
    /\ Call("greedy", q, t, er)
    /\ IF ~SedContains(q) \/ ~SedContains(t)
       THEN Return(RetNone)
       ELSE /\ pc' = "greedy"
            /\ path' = <<q>>
            /\ ret' = NoRet
            /\ UNCHANGED <<paths, shortest>>
    /\ UNCHANGED <<backing, expanded, rng_vars, nb_cached, sed_cached>>

\* A call of _greedy_search for its own sake.
GreedySearch ==
    \E q \in Sym, t \in Sym, er \in ErrorRates :
        GreedyCall(q, t, er) /\ UNCHANGED sim_vars

\* One iteration of the loop, lines 127-151.
GreedyIter ==
    /\ pc = "greedy"
    /\ GreedyLoopCond(path)
    /\ UNCHANGED <<stores, args, searches>>
    /\ LET new_query == Last(path) IN
       IF NbRaises(nb_cached, new_query, k)
       THEN /\ Return(RetRaise("DoesNotExist"))
            /\ UNCHANGED <<nb_cached, sed_cached>>
       ELSE
         LET fetched == NbCall(nb_cached, new_query, k)
             neighbours == fetched[KeywordKey(new_query, k)]
         IN \E r \in Draws :
            IF target \in neighbours /\ Recognised(error_rate, k, r)
            THEN /\ Return(RetPath(Append(path, target), "success"))
                 /\ nb_cached' = fetched
                 /\ UNCHANGED sed_cached
            ELSE
              LET missed == IF target \in neighbours
                            THEN NbRemove(fetched, new_query, k, target)
                            ELSE fetched
                  options == GreedyOptions(missed[KeywordKey(new_query, k)], path)
              IN /\ nb_cached' = missed
                 /\ IF options = {}
                    THEN /\ Return(GreedyFail(path))
                         /\ UNCHANGED sed_cached
                    ELSE IF \E n \in options : SedRaises(sed_cached, n, target)
                    THEN /\ Return(RetRaise("KeyError"))
                         /\ \E done \in SUBSET {n \in options : ~SedRaises(sed_cached, n, target)} :
                                sed_cached' = SedCalls(sed_cached, done, target)
                    ELSE /\ sed_cached' = SedCalls(sed_cached, options, target)
                         /\ path' = Append(path, GreedyChoice(sed_cached', options, target))
                         /\ UNCHANGED <<pc, ret, paths, shortest>>

\* The loop condition fails: lines 153-155.
GreedyExit ==
    /\ pc = "greedy"
    /\ ~GreedyLoopCond(path)
    /\ Return(GreedyFail(path))
    /\ UNCHANGED <<stores, args, searches, nb_cached, sed_cached>>

\* -------------------------------------------------- _breadth_first_search

\* The orderings sorted(S, key=lambda n: sed(n, t)) may return: ascending
\* distance, equal distances in the set's iteration order (any order).
SortedBy(cached, S, t) ==
    {p \in Perms(S) :
        \A i, j \in 1..Len(p) : i < j => Sed(cached, p[i], t) <= Sed(cached, p[j], t)}

\* The depth test off by one: len(current) < limit - 1.
BfsMayExtendShort(current, l) == Len(current) < l - 1

\* Line 176: the path popped may still be extended.
BfsMayExtend(current, l) == Len(current) < l

\* The running frame of _breadth_first_search, with the two caches.
BfsFrame(ps, sh, nb, sed, r) ==
    [paths |-> ps, shortest |-> sh, nb |-> nb, sed |-> sed, ret |-> r]

\* Enqueueing the neighbours alone, without the path that led to them.
BfsEnqueueBare(rest, current, sh, order) ==
    LET Unvisited(n) == n \notin sh
        new == SelectSeq(order, Unvisited)
    IN [paths |-> rest \o [i \in 1..Len(new) |-> <<new[i]>>],
        shortest |-> sh \cup Range(new)]

\* Enqueueing every neighbour, visited or not.
BfsEnqueueUnpruned(rest, current, sh, order) ==
    LET new == order
    IN [paths |-> rest \o [i \in 1..Len(new) |-> Append(current, new[i])],
        shortest |-> sh \cup Range(new)]

\* Lines 182-184: prune the visited neighbours, mark and enqueue the rest.
BfsEnqueue(rest, current, sh, order) ==
    LET Unvisited(n) == n \notin sh
        new == SelectSeq(order, Unvisited)
    IN [paths |-> rest \o [i \in 1..Len(new) |-> Append(current, new[i])],
        shortest |-> sh \cup Range(new)]

\* One iteration of the loop, lines 166-184, from frame f: the frames it may
\* end in (several when the iteration order of a set decides).
BfsExpand(f, q, t, l, kk) ==
    LET current == Head(f.paths)
        rest == Tail(f.paths)
        current_query == Last(current)
    IN IF NbRaises(f.nb, current_query, kk)
       THEN {BfsFrame(rest, f.shortest, f.nb, f.sed, RetRaise("DoesNotExist"))}
       ELSE
         LET fetched == NbCall(f.nb, current_query, kk)
             neighbours == fetched[KeywordKey(current_query, kk)]
         IN IF t \in neighbours
            THEN {BfsFrame(rest, f.shortest, fetched, f.sed,
                           IF current[1] = q
                           THEN RetPath(Append(current, t), "success")
                           ELSE RetRaise("AssertionError"))}
            ELSE IF BfsMayExtend(current, l)
            THEN IF \E n \in neighbours : SedRaises(f.sed, n, t)
                 THEN \* KeyError: the neighbours stay in the set's order
                      {LET e == BfsEnqueue(rest, current, f.shortest, p)
                       IN BfsFrame(e.paths, e.shortest, fetched,
                                   SedCalls(f.sed, done, t), NoRet) :
                         p \in Perms(neighbours),
                         done \in SUBSET {n \in neighbours : ~SedRaises(f.sed, n, t)}}
                 ELSE LET sed2 == SedCalls(f.sed, neighbours, t)
                      IN {LET e == BfsEnqueue(rest, current, f.shortest, p)
                          IN BfsFrame(e.paths, e.shortest, fetched, sed2, NoRet) :
                            p \in SortedBy(sed2, neighbours, t)}
            ELSE {BfsFrame(rest, f.shortest, fetched, f.sed, NoRet)}

\* Every result a call _breadth_first_search(q, t, l, kk) may end in when it
\* runs from frame f: the loop of lines 166-184 run to its end.
RECURSIVE BfsRun(_, _, _, _, _)
BfsRun(f, q, t, l, kk) ==
    IF f.ret # NoRet THEN {f.ret}
    ELSE IF f.paths = <<>> THEN {RetNone}
    ELSE UNION {BfsRun(g, q, t, l, kk) : g \in BfsExpand(f, q, t, l, kk)}

\* Lines 164-165, for a call _breadth_first_search(q, t, error_rate=er).
BfsCall(q, t, er) ==
    /\ Call("bfs", q, t, er)
    /\ pc' = "bfs"
    /\ paths' = <<<<q>>>>
    /\ shortest' = {q}
    /\ expanded' = <<>>
    /\ ret' = NoRet
    /\ UNCHANGED <<backing, rng_vars, nb_cached, sed_cached, path>>

\* A call of _breadth_first_search for its own sake; error_rate, which the
\* function never reads, is left at its default.
BreadthFirstSearch ==
    \E q \in Sym, t \in Sym, er \in {0} :
        BfsCall(q, t, er) /\ UNCHANGED sim_vars

BfsIter ==
    /\ pc = "bfs"
    /\ paths # <<>>
    /\ UNCHANGED <<backing, sim_vars, rng_vars, args, searches>>
    /\ \E g \in BfsExpand(BfsFrame(paths, shortest, nb_cached, sed_cached, NoRet),
                          query, target, limit, k) :
         /\ nb_cached' = g.nb
         /\ sed_cached' = g.sed
         /\ IF g.ret # NoRet
            THEN /\ Return(g.ret)
                 /\ expanded' = <<>>
            ELSE /\ paths' = g.paths
                 /\ shortest' = g.shortest
                 /\ expanded' = Append(expanded, Last(Head(paths)))
                 /\ UNCHANGED <<pc, ret, path>>

\* The frontier is empty: the function falls off its end and returns None.
BfsExit ==
    /\ pc = "bfs"
    /\ paths = <<>>
    /\ Return(RetNone)
    /\ expanded' = <<>>
    /\ UNCHANGED <<backing, sim_vars, rng_vars, args, searches, nb_cached, sed_cached>>

\* -------------------------------------------------------- _random_stumble

\* The loop condition off by one: len(path) <= limit + 1.
StumbleLoopCondLate(p) == Len(p) <= limit + 1

\* Line 193: the loop condition.
StumbleLoopCond(p) == Len(p) <= limit

\* Line 192, for a call _random_stumble(q, t, error_rate=er).
StumbleCall(q, t, er) ==
    /\ Call("stumble", q, t, er)
    /\ pc' = "stumble"
    /\ path' = <<q>>
    /\ ret' = NoRet
    /\ UNCHANGED <<backing, expanded, rng_vars, nb_cached, sed_cached, paths, shortest>>

\* A call of _random_stumble for its own sake.
RandomStumble ==
    \E q \in Sym, t \in Sym, er \in ErrorRates :
        StumbleCall(q, t, er) /\ UNCHANGED sim_vars

\* One iteration of the loop, lines 193-201, in which random.random()
\* returns r (if line 196 calls it) and random.choice returns n (if line
\* 201 has something to choose from).
StumbleStep(r, n) ==
    /\ pc = "stumble"
    /\ StumbleLoopCond(path)
    /\ UNCHANGED <<backing, expanded, sim_vars, args, searches, sed_cached>>
    /\ LET pivot == Last(path) IN
       IF NbRaises(nb_cached, pivot, k)
       THEN /\ Return(RetRaise("DoesNotExist"))
            /\ UNCHANGED nb_cached
       ELSE
         LET fetched == NbCall(nb_cached, pivot, k)
             neighbours == fetched[KeywordKey(pivot, k)]
         IN IF target \in neighbours /\ Recognised(error_rate, k, r)
            THEN /\ Return(RetPath(Append(path, target), "success"))
                 /\ nb_cached' = fetched
            ELSE
              LET missed == IF target \in neighbours
                            THEN NbRemove(fetched, pivot, k, target)
                            ELSE fetched
                  choices == missed[KeywordKey(pivot, k)]
              IN /\ nb_cached' = missed
                 /\ IF choices = {}
                    THEN \* random.choice of an empty list
                         Return(RetRaise("IndexError"))
                    ELSE /\ n \in choices
                         /\ path' = Append(path, n)
                         /\ UNCHANGED <<pc, ret, paths, shortest>>

\* An iteration with a random source nobody seeded: any draw, any choice.
StumbleIter ==
    /\ \E r \in Draws, n \in Sym : StumbleStep(r, n)
    /\ UNCHANGED rng_vars

\* The loop condition fails: line 203.
StumbleExit ==
    /\ pc = "stumble"
    /\ ~StumbleLoopCond(path)
    /\ Return(RetPath(path, "failure"))
    /\ UNCHANGED <<stores, args, searches, nb_cached, sed_cached>>

Next ==
    \/ GreedySearch
    \/ GreedyIter
    \/ GreedyExit
    \/ BreadthFirstSearch
    \/ BfsIter
    \/ BfsExit
    \/ RandomStumble
    \/ StumbleIter
    \/ StumbleExit

Spec == Init /\ [][Next]_vars

\* --------------------------------------------------- a Cache of its own
\* Cache(f) called again and again, each key at most MaxCalls times.

\* Cache.__call__(a, k=kk), lines 215-220.
CacheCall ==
    \E a \in CacheArgs, kk \in CacheKwargs :
        LET key == KeywordKey(a, kk) IN
        /\ called[key] < MaxCalls
        /\ called' = [called EXCEPT ![key] = @ + 1]
        /\ invoked' = IF CacheMiss(_cached, key)
                      THEN [invoked EXCEPT ![key] = @ + 1]
                      ELSE invoked
        /\ _cached' = CacheStore(_cached, key, WrappedF(a, kk))
        /\ cache_ret' = _cached'[key]
        /\ UNCHANGED <<search_vars, codec_vars, sim_vars, rng_vars, freq_vars>>

CacheInit ==
    /\ graph = <<>> /\ stroke_data = <<>> /\ limit = 1 /\ k = 1
    /\ SearchNew
    /\ CacheNew
    /\ FreqNew
    /\ CodecNew
    /\ NoSim

CacheNext == CacheCall

SpecCache == CacheInit /\ [][CacheNext]_vars

\* -------------------------------------------------------------- TraceFile
\* Text is a sequence of characters, a symbol a string of one character.

TAB == "<TAB>"
NL == "<NL>"
CR == "<CR>"
SP == " "

\* The characters at which a codecs stream reader ends a line (those of
\* unicode.splitlines; CR stands for all of them but the newline), and the
\* characters str.rstrip() removes.
LineBreaks == {NL, CR}
Whitespace == {NL, CR, TAB, SP}

\* The symbols of the traces: a letter, a blank, a line break that is not
\* the newline.
CodecSym == {"a", SP, CR}

NonePath == [present |-> FALSE, list |-> <<>>]
SomePath(list) == [present |-> TRUE, list |-> list]
Trace(q, t, p) == [query |-> q, target |-> t, path |-> p]

\* The paths of at most MaxPathLen symbols that start with q.
PathsFrom(q) ==
    UNION {{SomePath([i \in 1..n |-> <<c[i]>>]) : c \in {d \in [1..n -> CodecSym] : d[1] = q}} :
           n \in 1..MaxPathLen}

\* The traces a search run may produce: query != target, and the path absent
\* or starting with the query.
TraceSet ==
    UNION {{Trace(<<qt[1]>>, <<qt[2]>>, p) : p \in {NonePath} \cup PathsFrom(qt[1])} :
           qt \in {x \in CodecSym \X CodecSym : x[1] # x[2]}}

TraceLists == UNION {[1..n -> TraceSet] : n \in 0..MaxTraces}

\* ''.join(list)
RECURSIVE Join(_)
Join(list) == IF list = <<>> THEN <<>> ELSE Head(list) \o Join(Tail(list))

\* u"#query\ttarget\tvia"
Header ==
    <<"#", "q", "u", "e", "r", "y", TAB, "t", "a", "r", "g", "e", "t", TAB, "v", "i", "a">>

NoneText == <<"N", "o", "n", "e">>

\* A save that writes the whole tail of a successful path, target included.
SaveLineWholeTail(tr) ==
    LET p == tr.path.list IN
    IF tr.path.present /\ p # <<>>
    THEN IF Last(p) = tr.target
         THEN tr.query \o <<TAB>> \o tr.target \o <<TAB, "[">>
              \o Join(SubSeq(p, 2, Len(p))) \o <<"]">>
         ELSE tr.query \o <<TAB, "(">> \o tr.target \o <<")", TAB, "[">>
              \o Join(SubSeq(p, 2, Len(p))) \o <<"]">>
    ELSE tr.query \o <<TAB, "(">> \o tr.target \o <<")", TAB>> \o NoneText

\* The line TraceFile.save prints for one trace, lines 61-74; the assertion
\* of line 62 fails for a path that does not start with the query.
SaveLine(tr) ==
    LET p == tr.path.list IN
    IF tr.path.present /\ p # <<>>
    THEN IF Last(p) = tr.target
         THEN tr.query \o <<TAB>> \o tr.target \o <<TAB, "[">>
              \o Join(SubSeq(p, 2, Len(p) - 1)) \o <<"]">>
         ELSE tr.query \o <<TAB, "(">> \o tr.target \o <<")", TAB, "[">>
              \o Join(SubSeq(p, 2, Len(p))) \o <<"]">>
    ELSE tr.query \o <<TAB, "(">> \o tr.target \o <<")", TAB>> \o NoneText

SaveAsserts(tr) == (tr.path.present /\ tr.path.list # <<>>) => tr.path.list[1] = tr.query

\* The text TraceFile.save writes: print ends every line with a newline.
RECURSIVE SaveLines(_)
SaveLines(trs) ==
    IF trs = <<>> THEN <<>> ELSE SaveLine(Head(trs)) \o <<NL>> \o SaveLines(Tail(trs))

SaveText(trs) == Header \o <<NL>> \o SaveLines(trs)

\* The lines a codecs stream reader iterates over, line ends kept: a line
\* ends at a line break, CR NL counting as one.
RECURSIVE ReadLines(_)
ReadLines(text) ==
    IF text = <<>> THEN <<>>
    ELSE LET breaks == {i \in 1..Len(text) : text[i] \in LineBreaks}
             first == IF breaks = {} THEN Len(text)
                      ELSE CHOOSE i \in breaks : \A j \in breaks : i <= j
             end == IF /\ first < Len(text)
                       /\ text[first] = CR
                       /\ text[first + 1] = NL
                    THEN first + 1 ELSE first
         IN <<SubSeq(text, 1, end)>> \o ReadLines(SubSeq(text, end + 1, Len(text)))

\* line.rstrip()
RECURSIVE RStrip(_)
RStrip(line) ==
    IF line # <<>> /\ Last(line) \in Whitespace
    THEN RStrip(SubSeq(line, 1, Len(line) - 1))
    ELSE line

\* text.strip(chars)
RECURSIVE StripLeft(_, _)
StripLeft(text, chars) ==
    IF text # <<>> /\ Head(text) \in chars THEN StripLeft(Tail(text), chars) ELSE text

RECURSIVE StripRight(_, _)
StripRight(text, chars) ==
    IF text # <<>> /\ Last(text) \in chars
    THEN StripRight(SubSeq(text, 1, Len(text) - 1), chars)
    ELSE text

Strip(text, chars) == StripRight(StripLeft(text, chars), chars)

\* line.split('\t')
RECURSIVE SplitTab(_)
SplitTab(line) ==
    LET tabs == {i \in 1..Len(line) : line[i] = TAB} IN
    IF tabs = {} THEN <<line>>
    ELSE LET first == CHOOSE i \in tabs : \A j \in tabs : i <= j
         IN <<SubSeq(line, 1, first - 1)>> \o SplitTab(SubSeq(line, first + 1, Len(line)))

\* list(text): the characters as strings.
Chars(text) == [i \in 1..Len(text) |-> <<text[i]>>]

\* The body of the loop of TraceFile.load for one line, lines 83-98: the
\* trace decoded, or the error raised.
LoadLine(line) ==
    LET fields == SplitTab(RStrip(line)) IN
    IF Len(fields) # 3 THEN [error |-> "ValueError"]
    ELSE
      LET q == fields[1]
          was_success == Len(fields[2]) = 1
          t == IF was_success THEN fields[2] ELSE Strip(fields[2], {"(", ")"})
      IN IF Len(t) # 1 THEN [error |-> "AssertionError"]
         ELSE [error |-> "",
               trace |->
                 Trace(q, t,
                       IF fields[3] = NoneText THEN NonePath
                       ELSE SomePath(<<q>> \o Chars(Strip(fields[3], {"[", "]"}))
                                     \o (IF was_success THEN <<t>> ELSE <<>>)))]

\* TraceFile.load, lines 78-100.
LoadText(text) ==
    LET lines == ReadLines(text) IN
    IF lines = <<>> THEN [kind |-> "raise", exit |-> "StopIteration", traces |-> <<>>]
    ELSE IF Head(Head(lines)) # "#"
    THEN [kind |-> "raise", exit |-> "AssertionError", traces |-> <<>>]
    ELSE LET rows == [i \in 1..(Len(lines) - 1) |-> LoadLine(lines[i + 1])]
             bad == {i \in 1..Len(rows) : rows[i].error # ""}
         IN IF bad # {}
            THEN [kind |-> "raise",
                  exit |-> rows[CHOOSE i \in bad : \A j \in bad : i <= j].error,
                  traces |-> <<>>]
            ELSE [kind |-> "traces", exit |-> "",
                  traces |-> [i \in 1..Len(rows) |-> rows[i].trace]]

\* evaluate_paths, lines 32-37, with the classes of partial and total
\* failure told apart.
Outcome(tr) ==
    IF tr.path.present /\ tr.path.list # <<>> /\ Last(tr.path.list) = tr.target
    THEN "success"
    ELSE IF tr.path.present THEN "partial failure" ELSE "total failure"

\* TraceFile.save(traces, filename)
Save ==
    /\ codec_pc = "new"
    /\ \A i \in 1..Len(traces) : SaveAsserts(traces[i])
    /\ file' = SaveText(traces)
    /\ codec_pc' = "saved"
    /\ UNCHANGED <<search_vars, cache_vars, sim_vars, rng_vars, freq_vars, traces, loaded>>

\* TraceFile.load(filename)
Load ==
    /\ codec_pc \in {"saved", "given"}
    /\ loaded' = LoadText(file)
    /\ codec_pc' = "loaded"
    /\ UNCHANGED <<search_vars, cache_vars, sim_vars, rng_vars, freq_vars, traces, file>>

CodecInit ==
    /\ graph = <<>> /\ stroke_data = <<>> /\ limit = 1 /\ k = 1
    /\ SearchNew
    /\ CacheNew
    /\ FreqNew
    /\ traces \in TraceLists
    /\ file = <<>>
    /\ loaded = [kind |-> "none", exit |-> "", traces |-> <<>>]
    /\ codec_pc = "new"
    /\ NoSim

CodecNext == Save \/ Load

SpecCodec == CodecInit /\ [][CodecNext]_vars

\* ------------------------------------------------- a trace file as given
\* TraceFile.load on a file that TraceFile.save did not write: a first line
\* and at most MaxRows data lines, each put together from fields that are
\* right or wrong in one of a few ways.

GivenHeaders ==
    {Header, <<"#", "v", "i", "a">>, <<"#">>, <<"q", "u", "e", "r", "y">>}

GivenTargets == {<<"b">>, <<"(", "b", ")">>, <<"(", "b">>, <<"b", ")">>, <<"(", "b", "c", ")">>}
GivenVias == {<<"[", "]">>, <<"[", "c", "]">>, NoneText, <<"c">>, <<"[", "c">>}

GivenRows ==
    {<<"a">> \o <<TAB>> \o t \o <<TAB>> \o v : t \in GivenTargets, v \in GivenVias}
        \cup {<<"a", TAB, "b">>}

\* The lines, each ended by a newline.
RECURSIVE Unlines(_)
Unlines(lines) ==
    IF lines = <<>> THEN <<>> ELSE Head(lines) \o <<NL>> \o Unlines(Tail(lines))

GivenFiles ==
    {<<>>} \cup
    {Unlines(<<h>> \o rows) :
        h \in GivenHeaders, rows \in UNION {[1..n -> GivenRows] : n \in 0..MaxRows}}

LoadInit ==
    /\ graph = <<>> /\ stroke_data = <<>> /\ limit = 1 /\ k = 1
    /\ SearchNew
    /\ CacheNew
    /\ FreqNew
    /\ traces = <<>>
    /\ file \in GivenFiles
    /\ loaded = [kind |-> "none", exit |-> "", traces |-> <<>>]
    /\ codec_pc = "given"
    /\ NoSim

LoadNext == Load

SpecLoad == LoadInit /\ [][LoadNext]_vars

\* -------------------------------------------------------- simulate_search
\* simulate_search invoked up to MaxRuns times in one process, over the
\* search examples of one flashcard file. Every invocation passes the k and
\* the error_rate of the process; limit stays at the default of the search
\* functions, which is the limit of the process.

\* The names --strategy may carry, and one it may not.
StrategyNames == {"greedy", "shortest", "random", "nearest"}

\* A search function that is chosen whatever the name.
SearchFnDefault(strategy) ==
    IF strategy = "shortest" THEN "bfs"
    ELSE IF strategy = "random" THEN "stumble"
    ELSE "greedy"

\* Lines 35-43: the search function of a strategy, or the error raised.
SearchFn(strategy) ==
    IF strategy = "greedy" THEN "greedy"
    ELSE IF strategy = "shortest" THEN "bfs"
    ELSE IF strategy = "random" THEN "stumble"
    ELSE "ValueError"

\* The flashcard files: no line, or one line with a query and its targets
\* (different symbols other than the query: the strategies require
\* query != target).
Flashcards ==
    {<<>>} \cup
    UNION {{<<[query |-> q, targets |-> ts]>> :
               ts \in UNION {Perms(T) : T \in {U \in SUBSET (Sym \ {q}) :
                                                 U # {} /\ Cardinality(U) <= MaxSearches}}} :
           q \in Sym}

\* _load_search_examples: a pair for every target of every line, in order.
RECURSIVE LoadSearchExamples(_)
LoadSearchExamples(lines) ==
    IF lines = <<>> THEN <<>>
    ELSE [i \in 1..Len(Head(lines).targets) |-> <<Head(lines).query, Head(lines).targets[i]>>]
         \o LoadSearchExamples(Tail(lines))

\* An invocation that ended: by the error named, or "saved" with the trace
\* list handed to TraceFile.save.
Run(a, exit, trs) ==
    [strategy |-> a.strategy, error_rate |-> a.error_rate, exit |-> exit, traces |-> trs]

\* list(neighbours): the order in which a set is iterated depends on its
\* members only; the model takes the ascending one.
ListOf(S) == CHOOSE p \in Perms(S) : \A i, j \in 1..Len(p) : i < j => p[i] < p[j]

\* random.choice(seq) for a draw c of random.random(): seq[int(c * len(seq))]
RandomChoice(seq, c) == seq[((c * Len(seq)) \div 100) + 1]

\* The random source hands out the values drawn: those on the tape as far
\* as it is known, any value beyond it, which the tape then records.
TapeRead(drawn) ==
    /\ rng_pos + Len(drawn) <= MaxDraws
    /\ \A i \in 1..Len(drawn) : rng_pos + i <= Len(tape) => tape[rng_pos + i] = drawn[i]
    /\ tape' = IF rng_pos + Len(drawn) <= Len(tape) THEN tape
               ELSE SubSeq(tape, 1, rng_pos) \o drawn
    /\ rng_pos' = rng_pos + Len(drawn)

\* Lines 35-46: the strategy is looked up, the random source seeded for
\* 'random', the examples loaded.
SimulateSearch ==
    \E strategy \in StrategyNames :
        /\ sim_pc = "idle" /\ pc = "idle"
        /\ Len(runs) < MaxRuns
        /\ sim_args' = [sim_args EXCEPT !.strategy = strategy]
        /\ IF SearchFn(strategy) = "ValueError"
           THEN /\ runs' = Append(runs, Run(sim_args', "ValueError", <<>>))
                /\ UNCHANGED <<sim_pc, todo, sim_traces, loads, rng_vars>>
           ELSE /\ searches + Len(LoadSearchExamples(flashcard)) <= MaxSearches
                /\ IF strategy = "random"
                   THEN rng_pos' = 0 /\ UNCHANGED tape
                   ELSE UNCHANGED rng_vars
                /\ loads' = loads + 1
                /\ todo' = LoadSearchExamples(flashcard)
                /\ sim_traces' = <<>>
                /\ sim_pc' = "loop"
                /\ UNCHANGED runs
        /\ UNCHANGED <<search_vars, cache_vars, codec_vars, freq_vars, flashcard>>

\* Lines 46-47: the loop takes the next example and calls search_fn.
SimCall ==
    /\ sim_pc = "loop"
    /\ todo # <<>>
    /\ LET q == Head(todo)[1]
           t == Head(todo)[2]
           search_fn == SearchFn(sim_args.strategy)
       IN \/ search_fn = "greedy" /\ GreedyCall(q, t, sim_args.error_rate)
          \/ search_fn = "bfs" /\ BfsCall(q, t, sim_args.error_rate)
          \/ search_fn = "stumble" /\ StumbleCall(q, t, sim_args.error_rate)
    /\ todo' = Tail(todo)
    /\ sim_pc' = "call"
    /\ UNCHANGED <<flashcard, sim_args, sim_traces, runs, loads>>

\* Line 48, once search_fn is back: the trace is appended. Nothing catches
\* what search_fn raises: it ends the invocation.
SimAppend ==
    /\ sim_pc = "call" /\ pc = "idle"
    /\ IF ret.kind = "raise"
       THEN /\ runs' = Append(runs, Run(sim_args, ret.exit, <<>>))
            /\ sim_pc' = "idle"
            /\ todo' = <<>>
            /\ sim_traces' = <<>>
       ELSE /\ sim_traces' =
                 Append(sim_traces,
                        Trace(query, target,
                              IF ret.kind = "path" THEN SomePath(ret.path) ELSE NonePath))
            /\ sim_pc' = "loop"
            /\ UNCHANGED <<todo, runs>>
    /\ UNCHANGED <<search_vars, cache_vars, codec_vars, rng_vars, freq_vars, flashcard, sim_args, loads>>

\* Line 50: the loop is over, the traces go to TraceFile.save.
SimSave ==
    /\ sim_pc = "loop"
    /\ todo = <<>>
    /\ runs' = Append(runs, Run(sim_args, "saved", sim_traces))
    /\ sim_pc' = "idle"
    /\ sim_traces' = <<>>
    /\ UNCHANGED <<search_vars, cache_vars, codec_vars, rng_vars, freq_vars, flashcard, sim_args, todo, loads>>

\* An iteration of _random_stumble under strategy 'random': the draws come
\* from the seeded source.
SeededStumbleIter ==
    \E r \in Draws, c \in Draws :
        LET pivot == Last(path)
            raises == NbRaises(nb_cached, pivot, k)
            neighbours == IF raises THEN {} ELSE NbCall(nb_cached, pivot, k)[KeywordKey(pivot, k)]
            found == target \in neighbours
            success == found /\ Recognised(error_rate, k, r)
            choices == neighbours \ {target}
            drawn == (IF found /\ error_rate # 0 THEN <<r>> ELSE <<>>)
                     \o (IF raises \/ success THEN <<>> ELSE <<c>>)
        IN /\ StumbleStep(r, IF choices = {} THEN pivot ELSE RandomChoice(ListOf(choices), c))
           /\ TapeRead(drawn)

SimInit ==
    /\ \E w \in Worlds : graph = w.graph /\ stroke_data = w.stroke_data
    /\ limit \in 1..MaxLimit
    /\ k \in 1..MaxK
    /\ SearchNew
    /\ CacheNew
    /\ FreqNew
    /\ CodecNew
    /\ flashcard \in Flashcards
    /\ sim_args \in [strategy : {""}, error_rate : ErrorRates]
    /\ SimNew

SimNext ==
    \/ SimulateSearch
    \/ SimCall
    \/ SimAppend
    \/ SimSave
    \/ GreedyIter
    \/ GreedyExit
    \/ BfsIter
    \/ BfsExit
    \/ SeededStumbleIter
    \/ StumbleExit

SpecSim == SimInit /\ [][SimNext]_vars

\* ---------------------------------------------------------------- FreqDist
\* One FreqDist, built by the constructor from None or from a sequence of
\* (sample, count) pairs, then changed by up to MaxOps calls of inc,
\* decrement and remove_sample. Counts and increments are positive.

Samples == {"a", "b"}
Counts == 1..MaxCount

\* pairSeq, when one is given.
PairSeqs == UNION {[1..n -> Samples \X Counts] : n \in 0..MaxPairs}

\* self[sample] = value
SetItem(d, sample, value) == (sample :> value) @@ d

\* del self[sample]
DelItem(d, sample) == [s \in DOMAIN d \ {sample} |-> d[s]]

\* self.get(sample, 0)
Get(d, sample) == IF sample \in DOMAIN d THEN d[sample] ELSE 0

\* __init__, lines 131-134: the loop over pairSeq, from the dict d and the
\* total t.
RECURSIVE FreqLoad(_, _, _)
FreqLoad(d, t, pairs) ==
    IF pairs = <<>> THEN [fd |-> d, total |-> t]
    ELSE LET sample == Head(pairs)[1]
             count == Head(pairs)[2]
         IN FreqLoad(SetItem(d, sample, count), t + count, Tail(pairs))

\* A call that returned, and one that raised.
Returns(op, sample, n) == [op |-> op, sample |-> sample, n |-> n, exit |-> "return"]
Raises(op, sample, n, e) == [op |-> op, sample |-> sample, n |-> n, exit |-> e]

\* One more call on the distribution.
FreqCall ==
    /\ fd_calls < MaxOps
    /\ fd_calls' = fd_calls + 1
    /\ UNCHANGED <<search_vars, cache_vars, codec_vars, sim_vars, rng_vars>>

\* inc(sample, n), lines 136-138.
Inc ==
    \E sample \in Samples, n \in Counts :
        /\ FreqCall
        /\ fd' = SetItem(fd, sample, Get(fd, sample) + n)
        /\ fd_total' = fd_total + n
        /\ fd_call' = Returns("inc", sample, n)

\* decrement(sample, n), lines 140-154.
Decrement ==
    \E sample \in Samples, n \in Counts :
        /\ FreqCall
        /\ IF sample \notin DOMAIN fd
           THEN \* count = self[sample]
                /\ fd_call' = Raises("decrement", sample, n, "KeyError")
                /\ UNCHANGED <<fd, fd_total>>
           ELSE LET count == fd[sample] IN
                IF count < n
                THEN /\ fd_call' = Raises("decrement", sample, n, "ValueError")
                     /\ UNCHANGED <<fd, fd_total>>
                ELSE IF count = n
                THEN /\ fd_total' = fd_total - n
                     /\ fd' = DelItem(fd, sample)
                     /\ fd_call' = Returns("decrement", sample, n)
                ELSE /\ fd_total' = fd_total - n
                     /\ fd' = SetItem(fd, sample, fd[sample] - n)
                     /\ fd_call' = Returns("decrement", sample, n)

\* remove_sample(sample), lines 158-167.
RemoveSample ==
    \E sample \in Samples :
        /\ FreqCall
        /\ IF sample \notin DOMAIN fd
           THEN /\ fd_call' = Raises("remove_sample", sample, 0, "KeyError")
                /\ UNCHANGED <<fd, fd_total>>
           ELSE LET count == fd[sample] IN
                /\ fd' = DelItem(fd, sample)
                /\ fd_total' = fd_total - count
                /\ fd_call' = Returns("remove_sample", sample, count)

\* count(sample), lines 171-173.
Count(sample) == Get(fd, sample)

\* A float that is the quotient of two integers, and 0.0.
Quotient(num, den) == [num |-> num, den |-> den]
Zero == Quotient(0, 1)

\* prob(sample), lines 175-181.
Prob(sample) ==
    LET c == Get(fd, sample)
    IN IF c > 0 THEN Quotient(c, fd_total) ELSE Zero

\* FreqDist() or FreqDist(pairSeq), lines 124-134.
FreqInit ==
    /\ graph = <<>> /\ stroke_data = <<>> /\ limit = 1 /\ k = 1
    /\ SearchNew
    /\ CacheNew
    /\ CodecNew
    /\ NoSim
    /\ \E pairSeq \in PairSeqs :
           LET built == FreqLoad(<<>>, 0, pairSeq)
           IN fd = built.fd /\ fd_total = built.total
    /\ fd_call = Returns("__init__", "", 0)
    /\ fd_calls = 0

FreqNext ==
    \/ Inc
    \/ Decrement
    \/ RemoveSample

SpecFreq == FreqInit /\ [][FreqNext]_vars

\* ================================================================== claims

\* The top-k neighbour graph of the backing store.
StoredTopK(p) == IF graph[p].exists THEN TopK(graph[p].neighbours, k) ELSE {}

\* The neighbour graph as the provider reports it now: the cached set of a
\* pivot already cached, the stored top-k of any other.
ReportedTopK(p) ==
    IF KeywordKey(p, k) \in DOMAIN nb_cached THEN nb_cached[KeywordKey(p, k)] ELSE StoredTopK(p)

\* The symbols a walk of at most n hops from a symbol of S reaches, in the
\* graph Nb.
RECURSIVE Within(_, _, _)
Within(Nb(_), S, n) ==
    IF n = 0 THEN S ELSE Within(Nb, S \cup UNION {Nb(p) : p \in S}, n - 1)

Returned(f) == pc = "idle" /\ fn = f

\* C1: a path _breadth_first_search returns has the least number of hops
\* of all walks from query to target in the top-k neighbour graph of the
\* backing store, and it returns None only when that graph has no walk of at
\* most limit hops from query to target.
C1_BfsShortestInStoredGraph ==
    Returned("bfs") =>
        /\ ret.kind = "path" =>
             \A n \in 0..(Len(ret.path) - 2) : target \notin Within(StoredTopK, {query}, n)
        /\ ret.kind = "None" => target \notin Within(StoredTopK, {query}, limit)

\* What does hold of _breadth_first_search: the same, in the neighbour graph
\* as the provider reports it during the call.
BfsShortestInReportedGraph ==
    Returned("bfs") =>
        /\ ret.kind = "path" =>
             /\ target \in Within(ReportedTopK, {query}, Len(ret.path) - 1)
             /\ \A n \in 0..(Len(ret.path) - 2) :
                    target \notin Within(ReportedTopK, {query}, n)
        /\ ret.kind = "None" => target \notin Within(ReportedTopK, {query}, limit)

\* C2: the assertion at the end of _greedy_search never fails: a path
\* returned from the failure exit starts with query, does not end in target
\* and has at most limit + 1 symbols.
C2_GreedyFailureExit ==
    Returned("greedy") =>
        /\ ret.exit # "AssertionError"
        /\ ret.exit = "failure" =>
             /\ ret.path[1] = query
             /\ Last(ret.path) # target
             /\ Len(ret.path) <= limit + 1

\* A failed greedy walk that used up the limit after a recognition miss.
C2_Witness ==
    /\ Returned("greedy") /\ ret.exit = "failure"
    /\ Len(ret.path) = limit + 1 /\ limit >= 2
    /\ error_rate > 0
    /\ \E i \in 1..Len(ret.path) : target \in StoredTopK(ret.path[i])

\* C3: every path _breadth_first_search returns, and every path the success
\* exit of _greedy_search returns, starts with query and ends in target (the
\* assertion of _breadth_first_search never fails).
C3_SuccessEndpoints ==
    /\ Returned("bfs") =>
         /\ ret.exit # "AssertionError"
         /\ ret.kind = "path" => ret.path[1] = query /\ Last(ret.path) = target
    /\ (Returned("greedy") /\ ret.exit = "success") =>
         ret.path[1] = query /\ Last(ret.path) = target

\* A breadth-first path through two intermediate symbols.
C3_Witness ==
    Returned("bfs") /\ ret.kind = "path" /\ Len(ret.path) = 4

C5_MissIsPerStep ==
    ((pc = "greedy" /\ GreedyLoopCond(path)) \/ (pc = "stumble" /\ StumbleLoopCond(path))) =>
        (target \in StoredTopK(Last(path)) => target \in ReportedTopK(Last(path)))

\* C6: every call _get_neighbours(pivot, k=k) that returns, at any point of
\* a run, returns the set of the first k stored neighbours of pivot.
C6_ProviderStable ==
    \A p \in Sym :
        ~NbRaises(nb_cached, p, k) =>
            NbCall(nb_cached, p, k)[KeywordKey(p, k)] = GetNeighbours(p, k)

\* C9: a path _random_stumble returns has at most limit + 1 symbols and
\* starts with query.
C9_StumbleBound ==
    (Returned("stumble") /\ ret.kind = "path") =>
        Len(ret.path) <= limit + 1 /\ ret.path[1] = query

\* A stumble that walked limit steps without finding target, after a miss.
C9_Witness ==
    /\ Returned("stumble") /\ ret.exit = "failure"
    /\ Len(ret.path) = limit + 1 /\ limit >= 2
    /\ error_rate > 0

\* C10: when the query has no Node in the neighbour graph, or a distance
\* needed has no stroke data, the search call returns None: no lookup error
\* reaches its caller.
C10_LookupErrorsBecomeAbsent ==
    (pc = "idle" /\ fn # "none") =>
        /\ ret.exit \notin {"DoesNotExist", "KeyError"}
        /\ ~graph[query].exists => ret.kind = "None"

\* C7: a Cache called N >= 1 times with one argument tuple has invoked f
\* exactly once for it, f is invoked at most once per key over any sequence
\* of calls, and the call returns what f returns for the key.
C7_InvokedOncePerKey ==
    \A a \in CacheArgs, kk \in CacheKwargs :
        LET key == KeywordKey(a, kk) IN
        /\ invoked[key] = (IF called[key] >= 1 THEN 1 ELSE 0)
        /\ called[key] >= 1 => (~CacheMiss(_cached, key) /\ _cached[key] = WrappedF(a, kk))

\* One key called MaxCalls times, between calls with another key.
C7_Witness ==
    \E key, other \in CacheKeys :
        /\ key # other
        /\ called[key] = MaxCalls /\ invoked[key] = 1
        /\ called[other] >= 2 /\ invoked[other] = 1

\* The symbols of a trace list.
TraceSymbols ==
    UNION {{traces[i].query[1], traces[i].target[1]}
           \cup {traces[i].path.list[j][1] : j \in 1..Len(traces[i].path.list)} :
           i \in 1..Len(traces)}

RoundTrip ==
    /\ loaded.kind = "traces"
    /\ loaded.traces = traces
    /\ \A i \in 1..Len(traces) : Outcome(loaded.traces[i]) = Outcome(traces[i])

\* C8 as stated: TraceFile.load(TraceFile.save(traces)) == traces for every
\* trace list over single-character symbols that are none of tab, newline,
\* '(', ')', '[', ']'.
C8_RoundTripAsStated == codec_pc = "loaded" => RoundTrip

\* C8 as amended: the same for symbols that are in addition no line break
\* of the stream reader (carriage return and the like).
C8_RoundTrip ==
    (codec_pc = "loaded" /\ TraceSymbols \cap LineBreaks = {}) => RoundTrip

\* A list of a success and a partial failure of two symbols each, with a
\* blank among the symbols, loaded back.
C8_Witness ==
    /\ codec_pc = "loaded" /\ TraceSymbols \cap LineBreaks = {}
    /\ SP \in TraceSymbols
    /\ \E i, j \in 1..Len(traces) :
         /\ Outcome(traces[i]) = "success"
         /\ Outcome(traces[j]) = "partial failure" /\ Len(traces[j].path.list) = MaxPathLen

\* C14: _random_stumble always ends by returning a path, also when the
\* current symbol has no neighbour left to choose from (an unknown query
\* aside, which C10 settles).
C14_StumbleAlwaysReturnsPath ==
    (Returned("stumble") /\ ret.exit # "DoesNotExist") => ret.kind = "path"

\* A step of _greedy_search or _random_stumble is about to run.
AtStep == (pc = "greedy" /\ GreedyLoopCond(path)) \/ (pc = "stumble" /\ StumbleLoopCond(path))

\* With error_rate == 0, no symbol of the path walked so far, and of a path
\* returned none but the one before a final target, has target among its
\* neighbours.
NoneSkipped ==
    /\ (pc \in {"greedy", "stumble"} /\ error_rate = 0) =>
         \A i \in 1..(Len(path) - 1) : target \notin ReportedTopK(path[i])
    /\ (pc = "idle" /\ fn \in {"greedy", "stumble"} /\ error_rate = 0 /\ ret.kind = "path") =>
         \A i \in 1..(Len(ret.path) - 1) :
             target \in ReportedTopK(ret.path[i]) =>
                 (i = Len(ret.path) - 1 /\ Last(ret.path) = target)

\* C15: with error_rate == 0, a step of _greedy_search or _random_stumble
\* whose neighbour set holds target ends the call with the path and target
\* appended, whatever random.random() would return; so no symbol of a path
\* but the one before a final target has target among its neighbours.
C15_SucceedsAtFirstSight ==
    [][/\ (AtStep /\ error_rate = 0 /\ target \in ReportedTopK(Last(path))) =>
            (pc' = "idle" /\ ret' = RetPath(Append(path, target), "success"))
       /\ NoneSkipped']_vars

\* With error_rate == 0, target was found at a later step than the first:
\* by _random_stumble after a walk of two steps.
C15_Witness ==
    /\ Returned("stumble") /\ error_rate = 0 /\ ret.exit = "success"
    /\ Len(ret.path) = 4
    /\ target \notin ReportedTopK(query)

\* C18: a call of _greedy_search with a query or a target the wrapped
\* oracle has no data for returns None and leaves both caches as they were;
\* with data for both the search starts, whether or not a distance of theirs
\* has been cached.
C18_UnknownEndpointIsAbsent ==
    [][(searches' # searches /\ fn' = "greedy") =>
         IF stroke_data[query'].exists /\ stroke_data[target'].exists
         THEN pc' = "greedy" /\ path' = <<query'>>
         ELSE /\ pc' = "idle" /\ ret' = RetNone
              /\ UNCHANGED <<nb_cached, sed_cached>>]_vars

\* _greedy_search returned None for a target without stroke data and a
\* query with stroke data, after an earlier search had cached distances.
C18_Witness ==
    /\ Returned("greedy") /\ ret = RetNone /\ searches = 2
    /\ ~stroke_data[target].exists /\ stroke_data[query].exists
    /\ DOMAIN sed_cached # {}

\* The symbols that end a path of the frontier.
FrontierEnds == {Last(paths[i]) : i \in 1..Len(paths)}

\* C19: during a call of _breadth_first_search the symbols expanded so far
\* and the symbols ending the paths of the frontier are all different (no
\* symbol ends two paths, none is expanded twice or enqueued again once
\* expanded), all are in the visited set, and all are within limit hops of
\* query: there are never more expansions than symbols reachable from query.
C19_EachSymbolOnce ==
    pc = "bfs" =>
        /\ Cardinality(Range(expanded) \cup FrontierEnds) = Len(expanded) + Len(paths)
        /\ Range(expanded) \cup FrontierEnds \subseteq shortest
        /\ shortest \subseteq Within(ReportedTopK, {query}, limit)
        /\ Len(expanded) + Len(paths) <= Cardinality(Within(ReportedTopK, {query}, limit))

\* Two symbols expanded, the second with a neighbour expanded before it
\* (which was pruned), and a path still on the frontier.
C19_Witness ==
    /\ pc = "bfs" /\ Len(expanded) >= 2 /\ paths # <<>>
    /\ \E j \in 2..Len(expanded) :
           ReportedTopK(expanded[j]) \cap Range(SubSeq(expanded, 1, j - 1)) # {}

\* The neighbours a step of _greedy_search may move to: those the provider
\* reports for the last symbol of the path, less the path and target.
GreedyCandidates == (ReportedTopK(Last(path)) \ Range(path)) \ {target}

\* C20: a step of _greedy_search that does not end the search appends a
\* neighbour of the last symbol that is not on the path and is not target,
\* of least distance to target among these; when there is none, the search
\* ends and returns the path built so far (or succeeds, target being there).
C20_GreedyStepIsNearest ==
    [][(pc = "greedy" /\ GreedyLoopCond(path)) =>
         /\ pc' = "greedy" =>
              /\ path' = Append(path, Last(path'))
              /\ Last(path') \in GreedyCandidates
              /\ \A m \in GreedyCandidates :
                     StrokeEditDistance(Last(path'), target)
                         <= StrokeEditDistance(m, target)
         /\ (GreedyCandidates = {} /\ ~NbRaises(nb_cached, Last(path), k)) =>
              /\ pc' = "idle"
              /\ \/ ret' = RetPath(path, "failure")
                 \/ /\ target \in ReportedTopK(Last(path))
                    /\ ret' = RetPath(Append(path, target), "success")]_vars

\* A step chose between two neighbours of different distance to target, and
\* a later step found no neighbour left and ended the search.
C20_Witness ==
    /\ Returned("greedy") /\ ret.exit = "failure"
    /\ Len(ret.path) >= 2 /\ Len(ret.path) <= limit
    /\ \E a, b \in StoredTopK(query) \ {query, target} :
           StrokeEditDistance(a, target) < StrokeEditDistance(b, target)

\* p is a walk in the top-k neighbour graph of the backing store.
StoredWalk(p) == \A i \in 1..(Len(p) - 1) : p[i + 1] \in StoredTopK(p[i])

\* C21: every path _greedy_search, _breadth_first_search or _random_stumble
\* returns is a walk in the top-k neighbour graph of the backing store: each
\* symbol after the first is among the first k stored neighbours of the one
\* before it. The same holds of the path of a running call and of every path
\* of the frontier.
C21_PathsAreStoredWalks ==
    /\ (pc = "idle" /\ ret.kind = "path") => StoredWalk(ret.path)
    /\ pc \in {"greedy", "stumble"} => StoredWalk(path)
    /\ pc = "bfs" => \A i \in 1..Len(paths) : StoredWalk(paths[i])

\* _greedy_search returned a path of three hops found after a recognition
\* miss, which had taken target out of a cached neighbour set.
C21_Witness ==
    /\ Returned("greedy") /\ ret.exit = "success" /\ Len(ret.path) = 4
    /\ \E p \in Sym :
           /\ KeywordKey(p, k) \in DOMAIN nb_cached
           /\ target \in StoredTopK(p) \ nb_cached[KeywordKey(p, k)]

\* No symbol occurs twice in p.
NoRepeat(p) == \A i, j \in 1..Len(p) : p[i] = p[j] => i = j

\* C22: the path of _greedy_search holds no symbol twice, at every step of
\* the walk and when it is returned, from either exit.
C22_GreedyPathHasNoRepeat ==
    /\ pc = "greedy" => NoRepeat(path)
    /\ (Returned("greedy") /\ ret.kind = "path") => NoRepeat(ret.path)

\* _greedy_search returned a path of three symbols or more although a symbol
\* of the path has a stored neighbour that comes before it on the path (a
\* self loop or a way back), after a recognition miss.
C22_Witness ==
    /\ Returned("greedy") /\ ret.kind = "path" /\ Len(ret.path) >= 3
    /\ error_rate > 0
    /\ \E i \in 1..(Len(ret.path) - 1) :
           StoredTopK(ret.path[i]) \cap Range(SubSeq(ret.path, 1, i)) # {}
    /\ \E i \in 1..Len(ret.path) : target \in StoredTopK(ret.path[i])

\* The lines of the file, line ends dropped.
FileLines ==
    LET lines == ReadLines(file)
    IN [i \in 1..Len(lines) |-> StripRight(lines[i], LineBreaks)]

\* C12: TraceFile.load returns traces only for a file whose first line is
\* the header '#query<TAB>target<TAB>via'; for any other first line it ends
\* in an error.
C12_HeaderIsExact ==
    codec_pc = "loaded" =>
        (loaded.kind = "traces" => (FileLines # <<>> /\ Head(FileLines) = Header))

\* '[' symbols ']'
Bracketed(v) ==
    /\ Len(v) >= 2 /\ Head(v) = "[" /\ Last(v) = "]"
    /\ \A i \in 2..(Len(v) - 1) : v[i] \notin {"[", "]"}

\* The three row shapes of the format: a bare target with a bracketed via,
\* a target in parentheses with a bracketed via or with the literal None.
RowShape(line) ==
    LET f == SplitTab(line) IN
    /\ Len(f) = 3
    /\ Len(f[1]) = 1
    /\ \/ Len(f[2]) = 1 /\ f[2][1] \notin {"(", ")"} /\ Bracketed(f[3])
       \/ /\ Len(f[2]) = 3 /\ f[2][1] = "(" /\ f[2][3] = ")"
          /\ (Bracketed(f[3]) \/ f[3] = NoneText)

\* C13: TraceFile.load returns traces for a file with the header only when
\* each of its data lines has one of the three row shapes.
C13_MalformedLineAborts ==
    (codec_pc = "loaded" /\ loaded.kind = "traces" /\ Head(FileLines) = Header) =>
        \A i \in 2..Len(FileLines) : RowShape(FileLines[i])

\* The search examples of the process.
Examples == LoadSearchExamples(flashcard)

\* C11: an invocation of simulate_search with a strategy it knows ends by
\* handing TraceFile.save one trace per search example, in the order of the
\* examples: a failure of an oracle during one pair does not end it.
C11_FailureIsRecoveredPerPair ==
    \A i \in 1..Len(runs) :
        SearchFn(runs[i].strategy) # "ValueError" =>
            /\ runs[i].exit = "saved"
            /\ Len(runs[i].traces) = Len(Examples)
            /\ \A j \in 1..Len(runs[i].traces) :
                   /\ runs[i].traces[j].query = Examples[j][1]
                   /\ runs[i].traces[j].target = Examples[j][2]

\* C16: an invocation of simulate_search with a strategy name other than
\* 'greedy', 'shortest' and 'random' ends at once in ValueError: no search
\* example is loaded, no search function called, nothing handed to
\* TraceFile.save.
C16_InvalidStrategyFailsFirst ==
    [][(sim_pc = "idle" /\ sim_args'.strategy \notin {"greedy", "shortest", "random"}) =>
         /\ runs' = Append(runs, Run(sim_args', "ValueError", <<>>))
         /\ UNCHANGED <<loads, searches, pc, sim_pc, todo, sim_traces,
                        nb_cached, sed_cached, rng_vars>>]_vars

\* An invocation with an unknown strategy, made after one that searched and
\* saved its traces: no further load, no further search.
C16_Witness ==
    /\ Len(runs) = 2
    /\ runs[1].exit = "saved" /\ runs[1].traces # <<>>
    /\ runs[2].strategy = "nearest" /\ runs[2].exit = "ValueError"
    /\ loads = 1 /\ searches = Len(runs[1].traces)

\* C17: two invocations of simulate_search with strategy 'random' in one
\* process (same examples, graph, k and error_rate) end alike, with the
\* same trace list.
C17_RandomRunsReproducible ==
    \A i, j \in 1..Len(runs) :
        (runs[i].strategy = "random" /\ runs[j].strategy = "random") =>
            (runs[i].exit = runs[j].exit /\ runs[i].traces = runs[j].traces)

\* What does hold: the same in a process with error_rate == 0, in which no
\* miss ever takes a symbol out of a cached neighbour set.
ReproducibleWithoutMisses == sim_args.error_rate = 0 => C17_RandomRunsReproducible

\* The sum of the counts of the samples S of the dict d.
RECURSIVE SumOver(_, _)
SumOver(d, S) ==
    IF S = {} THEN 0
    ELSE LET s == CHOOSE x \in S : TRUE IN d[s] + SumOver(d, S \ {s})

\* The sum of all stored counts.
SumCounts == SumOver(fd, DOMAIN fd)

\* The stored total is the sum of the stored counts.
TotalIsSum == fd_total = SumCounts

\* Every stored count is positive.
CountsArePositive == \A s \in DOMAIN fd : fd[s] > 0

\* prob(sample) is count(sample) divided by the sum of all counts, and 0.0
\* for a sample that is not present.
ProbIsRatio(sample) ==
    IF sample \notin DOMAIN fd
    THEN Prob(sample) = Zero
    ELSE /\ Prob(sample).den # 0
         /\ Prob(sample).num * SumCounts = Count(sample) * Prob(sample).den

\* A decrement by more than the stored count raises ValueError and leaves
\* the distribution as it was.
DecrementTooFarFails ==
    (/\ fd_calls' # fd_calls
     /\ fd_call'.op = "decrement"
     /\ fd_call'.sample \in DOMAIN fd
     /\ fd_call'.n > fd[fd_call'.sample]) =>
        (fd_call'.exit = "ValueError" /\ UNCHANGED <<fd, fd_total>>)

\* C23: for a FreqDist built by the constructor, with or without pairs,
\* and changed by any calls of inc, decrement and remove_sample, the stored
\* total is always the sum of the stored counts, no stored count is zero or
\* negative after a decrement, prob(sample) is count(sample) divided by the
\* sum of all counts and 0.0 for a sample not present, and a decrement by
\* more than the stored count fails and leaves the distribution unchanged.
C23_FreqDistIsConsistent ==
    /\ [](/\ TotalIsSum
          /\ fd_call.op = "decrement" => CountsArePositive
          /\ \A sample \in Samples : ProbIsRatio(sample))
    /\ [][DecrementTooFarFails]_vars

\* What does hold of FreqDist: inc, decrement and remove_sample change the
\* stored total and the sum of the stored counts by the same amount, so the
\* two differ by what they differed by after construction; the stored
\* counts stay positive; a decrement by more than the stored count fails.
FreqDistCallsKeepTheBalance ==
    /\ []CountsArePositive
    /\ [][fd_total' - SumCounts' = fd_total - SumCounts]_vars
    /\ [][DecrementTooFarFails]_vars

====
